---------------------------- MODULE Spec2Model ----------------------------
(***************************************************************************)
(* Model of src/app.py: the 3CL heat-loss classes (Menuiserie, Paroi,      *)
(* Piece, Projet) and the Streamlit handlers that build the project tree.  *)
(*                                                                         *)
(* Python floats are modelled as exact fixed-point integers:               *)
(*   lengths            in units of 0.1 m                                  *)
(*   surfaces           in units of 0.01 m2                                *)
(*   u_value            in units of 0.005 W/m2.K                           *)
(*   facteur_iso, b_coef in twentieths (0.05)                              *)
(*   deperditions       in units of 1/400000 W/K (0.01 * 0.005 * 0.05)     *)
(*   psi_*              in units of 1/400000 W/K per 0.1 m                 *)
(* The uuid `id` fields are not modelled: nothing in the program reads     *)
(* them except as widget keys; list positions identify the objects.        *)
(* Accented letters of the source strings are written without accents.     *)
(***************************************************************************)
EXTENDS Integers, Sequences, FiniteSets, TLC

VARIABLES
    projet,     \* st.session_state.projet: the Projet object and its tree
    resultat,   \* what "Lancer le calcul 3CL" computed in the current run, or Aucun
    alerte,     \* the st.warning / st.error shown by the current run, or ""
    appel,      \* the last constructor or method call made on the core classes
    exception   \* the exception that call raised, "Aucune" when it returned

vars == <<projet, resultat, alerte, appel, exception>>

Aucun == [total_watts |-> 0, details |-> <<>>, calcule |-> FALSE]

AucunAppel == [op |-> "aucun"]

(***************************************************************************)
(* Bounds of the model.                                                    *)
(***************************************************************************)
MaxPieces == 2          \* rooms in the project
MaxParois == 3          \* envelope elements in the whole project
MaxMenuiseries == 2     \* glazing units in the whole project

(***************************************************************************)
(* Generic helpers on sequences (Python list iteration, sum()).            *)
(***************************************************************************)
RECURSIVE SommeSeq(_)
SommeSeq(s) == IF s = <<>> THEN 0 ELSE Head(s) + SommeSeq(Tail(s))

Retirer(s, j) == SubSeq(s, 1, j - 1) \o SubSeq(s, j + 1, Len(s))

(***************************************************************************)
(* class Menuiserie                                                        *)
(***************************************************************************)
UVitrageDefaut == 560   \* 2.8

UVitrage(vitrage_type) ==
    CASE vitrage_type = "Simple vitrage" -> 1160              \* 5.8
      [] vitrage_type = "Double vitrage ancien" -> 560        \* 2.8
      [] vitrage_type = "Double vitrage recent (VIR)" -> 280  \* 1.4
      [] vitrage_type = "Triple vitrage" -> 160               \* 0.8
      [] OTHER -> UVitrageDefaut

Menuiserie(nom, largeur, hauteur, vitrage_type) ==
    [nom |-> nom,
     largeur |-> largeur,
     hauteur |-> hauteur,
     surface |-> largeur * hauteur,
     vitrage_type |-> vitrage_type,
     u_value |-> UVitrage(vitrage_type)]

(***************************************************************************)
(* class Paroi                                                             *)
(***************************************************************************)
\* `mot in materiau` for the material strings the model uses.
Contient(mot, materiau) ==
    CASE materiau = "Beton Banche" -> mot = "Beton"
      [] materiau = "Beton" -> mot = "Beton"
      [] materiau = "Pierre" -> mot = "Pierre"
      [] materiau = "Brique" -> mot = "Brique"
      [] materiau = "Brique et Pierre" -> mot \in {"Brique", "Pierre"}
      [] OTHER -> FALSE      \* "Parpaing Creux", "Placo"

u_base(materiau) ==
    IF Contient("Beton", materiau) THEN 460          \* 2.3
    ELSE IF Contient("Pierre", materiau) THEN 560    \* 2.8
    ELSE IF Contient("Brique", materiau) THEN 300    \* 1.5
    ELSE 500                                         \* 2.5

\* facteur_iso with the 2005 threshold made inclusive.
facteur_iso_faux(annee_iso) ==
    LET f0 == 20
        f1 == IF annee_iso > 1980 THEN 10 ELSE f0
        f2 == IF annee_iso >= 2005 THEN 5 ELSE f1
        f3 == IF annee_iso > 2015 THEN 3 ELSE f2
    IN f3

\* Three successive `if`, each overwriting the factor set by the one before.
facteur_iso(annee_iso) ==
    LET f0 == 20                                        \* 1.0
        f1 == IF annee_iso > 1980 THEN 10 ELSE f0       \* 0.5
        f2 == IF annee_iso > 2005 THEN 5 ELSE f1        \* 0.25
        f3 == IF annee_iso > 2015 THEN 3 ELSE f2        \* 0.15
    IN f3

b_coef(contact) == IF contact = "Local Non Chauffe" THEN 19 ELSE 20

Paroi(nom, type_paroi, longueur, hauteur_largeur, orientation, contact, annee_iso, materiau) ==
    [nom |-> nom,
     type_paroi |-> type_paroi,
     longueur |-> longueur,
     hauteur_largeur |-> hauteur_largeur,
     surface_brute |-> longueur * hauteur_largeur,
     orientation |-> orientation,
     contact |-> contact,
     menuiseries |-> <<>>,
     u_value |-> (u_base(materiau) * facteur_iso(annee_iso)) \div 20,
     b_coef |-> b_coef(contact)]

ajouter_menuiserie(self, menuiserie) ==
    [self EXCEPT !.menuiseries = Append(@, menuiserie)]

get_surface_vitree(self) ==
    SommeSeq([k \in 1..Len(self.menuiseries) |-> self.menuiseries[k].surface])

get_surface_nette(self) == self.surface_brute - get_surface_vitree(self)

\* calcul_deperditions with the glazed term left without b_coef.
calcul_deperditions_faux(self) ==
    LET dp_opaque == get_surface_nette(self) * self.u_value * self.b_coef
        dp_vitree == SommeSeq([k \in 1..Len(self.menuiseries) |->
                        self.menuiseries[k].surface
                        * self.menuiseries[k].u_value * 20])
    IN dp_opaque + dp_vitree

calcul_deperditions(self) ==
    LET dp_opaque == get_surface_nette(self) * self.u_value * self.b_coef
        dp_vitree == SommeSeq([k \in 1..Len(self.menuiseries) |->
                        self.menuiseries[k].surface
                        * self.menuiseries[k].u_value * self.b_coef])
    IN dp_opaque + dp_vitree

(***************************************************************************)
(* class Piece                                                             *)
(***************************************************************************)
Piece(nom, longueur, largeur, hauteur) ==
    [nom |-> nom,
     longueur |-> longueur,
     largeur |-> largeur,
     hauteur |-> hauteur,
     surface_hab |-> longueur * largeur,
     volume |-> longueur * largeur * hauteur,
     murs |-> <<>>,
     planchers |-> <<>>,
     plafonds |-> <<>>]

\* if / elif / elif with no else: any other type_paroi falls through and the
\* method returns None without touching the three lists.
ajouter_paroi(self, paroi) ==
    IF paroi.type_paroi = "MUR" THEN [self EXCEPT !.murs = Append(@, paroi)]
    ELSE IF paroi.type_paroi = "PLANCHER"
         THEN [self EXCEPT !.planchers = Append(@, paroi)]
    ELSE IF paroi.type_paroi = "PLAFOND"
         THEN [self EXCEPT !.plafonds = Append(@, paroi)]
    ELSE self

\* The method has no raise statement.
ajouter_paroi_leve(self, paroi) == "Aucune"

(***************************************************************************)
(* class Projet                                                            *)
(***************************************************************************)
ProjetInit ==
    [pieces |-> <<>>,
     altitude |-> 0,
     zone_climatique |-> "H1",
     annee_construction |-> 1990]

psi_menuiserie == 4000     \* 0.1  W/m.K
psi_plancher == 14000      \* 0.35 W/m.K
psi_plafond == 10000       \* 0.25 W/m.K

\* for fen in mur.menuiseries: pertes_pt += perimetre * psi_menuiserie
RECURSIVE BoucleFenetres(_, _)
BoucleFenetres(pertes_pt, menuiseries) ==
    IF menuiseries = <<>> THEN pertes_pt
    ELSE LET fen == Head(menuiseries)
             perimetre == (fen.largeur + fen.hauteur) * 2
         IN BoucleFenetres(pertes_pt + perimetre * psi_menuiserie,
                           Tail(menuiseries))

\* for mur in piece.murs: the window loop, then the guarded length sum.
\* acc = [pertes_pt, longueur_murs_ext]
RECURSIVE BoucleMursPT(_, _)
BoucleMursPT(acc, murs) ==
    IF murs = <<>> THEN acc
    ELSE LET mur == Head(murs)
             pt == BoucleFenetres(acc.pertes_pt, mur.menuiseries)
             lg == IF mur.contact \in {"Exterieur", "Local Non Chauffe"}
                   THEN acc.longueur_murs_ext + mur.longueur
                   ELSE acc.longueur_murs_ext
         IN BoucleMursPT([pertes_pt |-> pt, longueur_murs_ext |-> lg],
                         Tail(murs))

RECURSIVE BouclePiecesPT(_, _)
BouclePiecesPT(acc, pieces) ==
    IF pieces = <<>> THEN acc
    ELSE BouclePiecesPT(BoucleMursPT(acc, Head(pieces).murs), Tail(pieces))

calcul_ponts_thermiques_auto(self) ==
    LET acc == BouclePiecesPT([pertes_pt |-> 0, longueur_murs_ext |-> 0],
                              self.pieces)
    IN acc.pertes_pt + acc.longueur_murs_ext * psi_plancher
                     + acc.longueur_murs_ext * psi_plafond

Ligne(element, type, d) ==
    [Element |-> element, Type |-> type, Deperdition |-> d]

\* One of the three inner loops: d = x.calcul_deperditions();
\* total_watts += d; details.append({...}).   acc = [total_watts, details]
RECURSIVE BoucleParois(_, _, _, _)
BoucleParois(acc, piece, parois, type) ==
    IF parois = <<>> THEN acc
    ELSE LET d == calcul_deperditions(Head(parois))
         IN BoucleParois(
                [total_watts |-> acc.total_watts + d,
                 details |-> Append(acc.details,
                                Ligne(<<piece.nom, Head(parois).nom>>, type, d))],
                piece, Tail(parois), type)

\* ParcoursPiece with the floor loop run before the wall loop.
ParcoursPiece_faux(acc, piece) ==
    LET a1 == BoucleParois(acc, piece, piece.planchers, "Plancher")
        a2 == BoucleParois(a1, piece, piece.murs, "Mur+Baies")
    IN BoucleParois(a2, piece, piece.plafonds, "Plafond")

\* Body of `for piece in self.pieces`: murs, then planchers, then plafonds.
ParcoursPiece(acc, piece) ==
    LET a1 == BoucleParois(acc, piece, piece.murs, "Mur+Baies")
        a2 == BoucleParois(a1, piece, piece.planchers, "Plancher")
    IN BoucleParois(a2, piece, piece.plafonds, "Plafond")

RECURSIVE BouclePieces(_, _)
BouclePieces(acc, pieces) ==
    IF pieces = <<>> THEN acc
    ELSE BouclePieces(ParcoursPiece(acc, Head(pieces)), Tail(pieces))

\* AjoutPonts with the row appended and `total_watts += ponts` forgotten.
AjoutPonts_faux(acc, ponts) ==
    [total_watts |-> acc.total_watts,
     details |-> Append(acc.details, Ligne(<<"Global">>, "Ponts Thermiques", ponts))]

\* total_watts += ponts; details.append({"Element": "Global", ...})
AjoutPonts(acc, ponts) ==
    [total_watts |-> acc.total_watts + ponts,
     details |-> Append(acc.details, Ligne(<<"Global">>, "Ponts Thermiques", ponts))]

\* calcul_global_deperditions emptying each room's floor list as it walks it.
calcul_global_deperditions_faux(self) ==
    LET acc == BouclePieces([total_watts |-> 0, details |-> <<>>], self.pieces)
        fin == AjoutPonts(acc, calcul_ponts_thermiques_auto(self))
    IN [total_watts |-> fin.total_watts,
        details |-> fin.details,
        self |-> [self EXCEPT !.pieces = [i \in 1..Len(self.pieces) |->
                    [self.pieces[i] EXCEPT !.planchers = <<>>]]]]

\* Returns (total_watts, details).  `self` is the Projet after the call: the
\* method assigns to no attribute and calls no mutating method of the lists
\* it walks.
calcul_global_deperditions(self) ==
    LET acc == BouclePieces([total_watts |-> 0, details |-> <<>>], self.pieces)
        fin == AjoutPonts(acc, calcul_ponts_thermiques_auto(self))
    IN [total_watts |-> fin.total_watts,
        details |-> fin.details,
        self |-> self]

(***************************************************************************)
(* Helpers on the project tree.                                            *)
(***************************************************************************)
Parois(piece) == piece.murs \o piece.planchers \o piece.plafonds

ToutesParois(p) ==
    UNION {{Parois(p.pieces[i])[k] : k \in 1..Len(Parois(p.pieces[i]))} :
           i \in 1..Len(p.pieces)}

NbParois(p) == SommeSeq([i \in 1..Len(p.pieces) |-> Len(Parois(p.pieces[i]))])

NbMenuiseriesPiece(piece) ==
    SommeSeq([k \in 1..Len(Parois(piece)) |-> Len(Parois(piece)[k].menuiseries)])

NbMenuiseries(p) ==
    SommeSeq([i \in 1..Len(p.pieces) |-> NbMenuiseriesPiece(p.pieces[i])])

RemplacerPiece(p, i, piece) == [p EXCEPT !.pieces[i] = piece]

(***************************************************************************)
(* The Streamlit script: one action per button handler.  Every widget      *)
(* interaction reruns the script, so the result table and the alert of a   *)
(* run are gone in the next one.                                           *)
(***************************************************************************)
\* Values the widgets can deliver (number_input bounds of the script).
NomsPiece == {"Salon"}
LongueursPiece == {50}          \* c2.number_input(.., 0.1, 50.0, 5.0)
LargeursPiece == {40}           \* c3.number_input(.., 0.1, 50.0, 4.0)
HauteursPiece == {25}           \* c4.number_input(.., 1.5, 10.0, 2.5)
NomsMur == {"Mur Nord"}
LongueursMur == {-10, 50}       \* cols[1].number_input("Longueur", value=..): no min_value
HauteursMur == {25}             \* cols[2].number_input("Hauteur", value=..): no min_value
Orientations == {"Nord"}
Contacts == {"Exterieur", "Local Non Chauffe", "Interieur (Chauffe)"}
MateriauxMur == {"Parpaing Creux"}
AnneesMur == {0}                \* c_iso.number_input(.., 0, 2025, 0)
\* <<f_w, f_h>>: c_f2.number_input("L", 0.1, 5.0, 1.0), c_f3.number_input("H", 0.1, 5.0, 1.2)
DimsFenetre == {<<10, 12>>, <<50, 25>>}
TypesVitrage == {"Simple vitrage"}

\* st.warning(...) and st.error(...) texts.
MsgMurInterieur == "Les murs interieurs ne comptent pas dans les deperditions."
MsgFenetre == "Impossible: La fenetre est plus grande que le mur restant !"

\* Sidebar widgets, evaluated by the first run of the script.  The three
\* values are metadata no formula reads; they are kept at the widgets' defaults.
ProjetSession ==
    [ProjetInit EXCEPT !.zone_climatique = "H1", !.altitude = 100,
                       !.annee_construction = 1990]

Init ==
    /\ projet = ProjetSession
    /\ resultat = Aucun
    /\ alerte = ""
    /\ appel = AucunAppel
    /\ exception = "Aucune"

\* if st.button("Creer la piece")
CreerPiece ==
    /\ Len(projet.pieces) < MaxPieces
    /\ \E p_nom \in NomsPiece, p_len \in LongueursPiece,
          p_wid \in LargeursPiece, p_h \in HauteursPiece :
          projet' = [projet EXCEPT !.pieces =
                        Append(@, Piece(p_nom, p_len, p_wid, p_h))]
    /\ resultat' = Aucun
    /\ alerte' = ""
    /\ UNCHANGED <<appel, exception>>

\* The add-wall handler without its interior-contact test.
MurInterieur_faux(m_contact) == FALSE

\* if m_contact == "Interieur (Chauffe)"
MurInterieur(m_contact) == m_contact = "Interieur (Chauffe)"

\* if st.form_submit_button("Ajouter ce Mur")
AjouterMur(i) ==
    /\ NbParois(projet) < MaxParois
    /\ \E m_nom \in NomsMur, m_long \in LongueursMur, m_haut \in HauteursMur,
          m_orient \in Orientations, m_contact \in Contacts,
          mat_choix \in MateriauxMur, iso_annee \in AnneesMur :
          IF MurInterieur(m_contact)
          THEN /\ alerte' = MsgMurInterieur
               /\ projet' = projet
          ELSE LET new_mur == Paroi(m_nom, "MUR", m_long, m_haut, m_orient,
                                    m_contact, iso_annee, mat_choix)
               IN /\ projet' = RemplacerPiece(projet, i,
                                    ajouter_paroi(projet.pieces[i], new_mur))
                  /\ alerte' = ""
    /\ resultat' = Aucun
    /\ UNCHANGED <<appel, exception>>

\* if st.button(f"Supprimer {mur.nom}"): piece.murs.remove(mur)
SupprimerMur(i, j) ==
    /\ j \in 1..Len(projet.pieces[i].murs)
    /\ projet' = [projet EXCEPT !.pieces[i].murs = Retirer(@, j)]
    /\ resultat' = Aucun
    /\ alerte' = ""
    /\ UNCHANGED <<appel, exception>>

\* if men.surface > mur.get_surface_nette()
FenetreTropGrande(men, mur) == men.surface > get_surface_nette(mur)

\* if c_f5.button("Ajouter")
AjouterFenetre(i, j) ==
    /\ j \in 1..Len(projet.pieces[i].murs)
    /\ NbMenuiseries(projet) < MaxMenuiseries
    /\ \E f_nom \in {"Fenetre 1"}, f_wh \in DimsFenetre, f_type \in TypesVitrage :
          LET men == Menuiserie(f_nom, f_wh[1], f_wh[2], f_type)
              mur == projet.pieces[i].murs[j]
          IN IF FenetreTropGrande(men, mur)
             THEN /\ alerte' = MsgFenetre
                  /\ projet' = projet
             ELSE /\ projet' = [projet EXCEPT !.pieces[i].murs[j] =
                                    ajouter_menuiserie(mur, men)]
                  /\ alerte' = ""
    /\ resultat' = Aucun
    /\ UNCHANGED <<appel, exception>>

\* if st.button("Ajouter Plancher Bas standard")
AjouterPlancher(i) ==
    /\ NbParois(projet) < MaxParois
    /\ LET piece == projet.pieces[i]
           sol == Paroi("Sol", "PLANCHER", piece.longueur, piece.largeur,
                        "N/A", "Local Non Chauffe", 1990, "Beton")
       IN projet' = RemplacerPiece(projet, i, ajouter_paroi(piece, sol))
    /\ resultat' = Aucun
    /\ alerte' = ""
    /\ UNCHANGED <<appel, exception>>

\* if st.button("Ajouter Plafond sous combles")
AjouterPlafond(i) ==
    /\ NbParois(projet) < MaxParois
    /\ LET piece == projet.pieces[i]
           plaf == Paroi("Plafond", "PLAFOND", piece.longueur, piece.largeur,
                         "N/A", "Exterieur", 2000, "Placo")
       IN projet' = RemplacerPiece(projet, i, ajouter_paroi(piece, plaf))
    /\ resultat' = Aucun
    /\ alerte' = ""
    /\ UNCHANGED <<appel, exception>>

\* if st.button("Lancer le calcul 3CL")
LancerCalcul ==
    /\ LET r == calcul_global_deperditions(projet)
       IN /\ resultat' = [total_watts |-> r.total_watts,
                          details |-> r.details, calcule |-> TRUE]
          /\ projet' = r.self
    /\ alerte' = ""
    /\ UNCHANGED <<appel, exception>>

Next ==
    \/ CreerPiece
    \/ \E i \in 1..Len(projet.pieces) : AjouterMur(i)
    \/ \E i \in 1..Len(projet.pieces), j \in 1..MaxParois : SupprimerMur(i, j)
    \/ \E i \in 1..Len(projet.pieces), j \in 1..MaxParois : AjouterFenetre(i, j)
    \/ \E i \in 1..Len(projet.pieces) : AjouterPlancher(i)
    \/ \E i \in 1..Len(projet.pieces) : AjouterPlafond(i)
    \/ LancerCalcul

Spec == Init /\ [][Next]_vars

(***************************************************************************)
(* The classes driven directly, without the Streamlit handlers: every      *)
(* public method is applied to arguments drawn from small sets.  `appel`   *)
(* keeps the last call, `exception` what it raised.                        *)
(***************************************************************************)
TypesParoi == {"MUR", "PLANCHER", "PLAFOND", "TOIT"}
DimsMenuiserie == {<<10, 12>>, <<50, 50>>}

\* Piece(...) ; projet.pieces.append(...)
CoreCreerPiece ==
    /\ Len(projet.pieces) < MaxPieces
    /\ projet' = [projet EXCEPT !.pieces = Append(@, Piece("Salon", 50, 40, 25))]
    /\ appel' = [op |-> "Piece"]
    /\ exception' = "Aucune"
    /\ UNCHANGED <<resultat, alerte>>

\* Paroi(...) ; piece.ajouter_paroi(paroi)
CoreAjouterParoi(i) ==
    /\ NbParois(projet) < MaxParois
    /\ \E type_paroi \in TypesParoi, contact \in Contacts :
          LET paroi == Paroi("Paroi", type_paroi, 50, 25, "Nord", contact,
                             0, "Parpaing Creux")
              piece == projet.pieces[i]
          IN /\ projet' = RemplacerPiece(projet, i, ajouter_paroi(piece, paroi))
             /\ appel' = [op |-> "ajouter_paroi", i |-> i, paroi |-> paroi,
                          avant |-> piece]
             /\ exception' = ajouter_paroi_leve(piece, paroi)
    /\ UNCHANGED <<resultat, alerte>>

\* Menuiserie(...) ; mur.ajouter_menuiserie(men)
CoreAjouterMenuiserie(i, j) ==
    /\ j \in 1..Len(projet.pieces[i].murs)
    /\ NbMenuiseries(projet) < MaxMenuiseries
    /\ \E wh \in DimsMenuiserie :
          LET men == Menuiserie("Fenetre 1", wh[1], wh[2], "Simple vitrage")
          IN projet' = [projet EXCEPT !.pieces[i].murs[j] =
                            ajouter_menuiserie(@, men)]
    /\ appel' = [op |-> "ajouter_menuiserie"]
    /\ exception' = "Aucune"
    /\ UNCHANGED <<resultat, alerte>>

\* projet.calcul_global_deperditions()
CoreCalcul ==
    /\ LET r == calcul_global_deperditions(projet)
       IN /\ resultat' = [total_watts |-> r.total_watts,
                          details |-> r.details, calcule |-> TRUE]
          /\ projet' = r.self
    /\ appel' = [op |-> "calcul_global_deperditions"]
    /\ exception' = "Aucune"
    /\ UNCHANGED alerte

NextCore ==
    \/ CoreCreerPiece
    \/ \E i \in 1..Len(projet.pieces) : CoreAjouterParoi(i)
    \/ \E i \in 1..Len(projet.pieces), j \in 1..MaxParois :
          CoreAjouterMenuiserie(i, j)
    \/ CoreCalcul

InitCore ==
    /\ projet = ProjetInit
    /\ resultat = Aucun
    /\ alerte = ""
    /\ appel = AucunAppel
    /\ exception = "Aucune"

SpecCore == InitCore /\ [][NextCore]_vars

(***************************************************************************)
(* One Paroi on its own: the constructor applied to every combination of   *)
(* material, insulation year and contact, then glazing appended to it     *)
(* by direct calls of ajouter_menuiserie.  `appel` holds the arguments,    *)
(* then the object built beside the year and material it was built from.   *)
(***************************************************************************)
AnneesIso ==
    {0, 1970, 1980, 1981, 1990, 2005, 2006, 2010, 2015, 2016, 2020, 2025}
Materiaux ==
    {"Parpaing Creux", "Brique", "Pierre", "Beton Banche", "Beton", "Placo",
     "Brique et Pierre"}
TypesVitrageCore == {"Simple vitrage", "Double vitrage recent (VIR)", "Porte"}

\* The constructor's arguments, before the call.
InitParoi ==
    /\ projet = ProjetInit
    /\ resultat = Aucun
    /\ alerte = ""
    /\ exception = "Aucune"
    /\ \E longueur \in {-10, 50}, contact \in Contacts,
          annee_iso \in AnneesIso, materiau \in Materiaux :
          appel = [op |-> "arguments", longueur |-> longueur,
                   contact |-> contact, annee_iso |-> annee_iso,
                   materiau |-> materiau]

\* Paroi(nom, type_paroi, longueur, hauteur_largeur, ...)
ConstruireParoi ==
    /\ appel.op = "arguments"
    /\ appel' = [op |-> "Paroi", annee_iso |-> appel.annee_iso,
                 materiau |-> appel.materiau,
                 paroi |-> Paroi("Mur Nord", "MUR", appel.longueur, 25, "Nord",
                                 appel.contact, appel.annee_iso, appel.materiau)]
    /\ exception' = "Aucune"
    /\ UNCHANGED <<projet, resultat, alerte>>

\* paroi.ajouter_menuiserie(Menuiserie(...))
GarnirParoi ==
    /\ appel.op \in {"Paroi", "ajouter_menuiserie"}
    /\ Len(appel.paroi.menuiseries) < MaxMenuiseries
    /\ \E wh \in DimsMenuiserie, vitrage_type \in TypesVitrageCore :
          LET men == Menuiserie("Fenetre 1", wh[1], wh[2], vitrage_type)
          IN appel' = [appel EXCEPT !.op = "ajouter_menuiserie",
                                    !.paroi = ajouter_menuiserie(@, men)]
    /\ exception' = "Aucune"
    /\ UNCHANGED <<projet, resultat, alerte>>

NextParoi == ConstruireParoi \/ GarnirParoi

SpecParoi == InitParoi /\ [][NextParoi]_vars

(***************************************************************************)
(* Properties.                                                             *)
(***************************************************************************)
MenuiseriesDe(paroi) == {paroi.menuiseries[k] : k \in 1..Len(paroi.menuiseries)}

\* C1: in every reachable state of the application, every envelope element
\* has netOpaqueArea = grossArea - sum of hosted glazing areas >= 0.
C1_SurfaceNetteNonNegative ==
    \A paroi \in ToutesParois(projet) :
        /\ get_surface_nette(paroi) = paroi.surface_brute - get_surface_vitree(paroi)
        /\ get_surface_nette(paroi) >= 0

\* C5: no reachable project state holds a room, an element or a glazing unit
\* with a non-positive dimension or a non-positive area.
C5_DimensionsPositives ==
    /\ \A i \in 1..Len(projet.pieces) :
          LET piece == projet.pieces[i]
          IN /\ piece.longueur > 0 /\ piece.largeur > 0 /\ piece.hauteur > 0
             /\ piece.surface_hab > 0
    /\ \A paroi \in ToutesParois(projet) :
          /\ paroi.longueur > 0 /\ paroi.hauteur_largeur > 0
          /\ paroi.surface_brute > 0
          /\ \A men \in MenuiseriesDe(paroi) :
                men.largeur > 0 /\ men.hauteur > 0 /\ men.surface > 0

C6_TotalEgalSommeDesLignes ==
    resultat.calcule =>
        resultat.total_watts =
            SommeSeq([k \in 1..Len(resultat.details) |->
                        resultat.details[k].Deperdition])

C6_Temoin ==
    /\ resultat.calcule
    /\ Len(resultat.details) >= 3
    /\ resultat.details[Len(resultat.details)].Deperdition > 0
    /\ resultat.total_watts > resultat.details[Len(resultat.details)].Deperdition

Decalage(p, i) == SommeSeq([k \in 1..(i - 1) |-> Len(Parois(p.pieces[k]))])

LigneDe(piece, paroi, type) ==
    [Element |-> <<piece.nom, paroi.nom>>, Type |-> type,
     Deperdition |-> calcul_deperditions(paroi)]

\* C8: the report has one row per element of any room plus one last
\* thermal-bridge row; rows follow the rooms' insertion order and, within a
\* room, all walls, then all floors, then all ceilings, in insertion order.
C8_OrdreDesLignes ==
    resultat.calcule =>
        LET d == resultat.details
        IN /\ Len(d) = NbParois(projet) + 1
           /\ d[Len(d)].Type = "Ponts Thermiques"
           /\ d[Len(d)].Element = <<"Global">>
           /\ \A k \in 1..(Len(d) - 1) : d[k].Type # "Ponts Thermiques"
           /\ \A i \in 1..Len(projet.pieces) :
                 LET piece == projet.pieces[i]
                     m0 == Decalage(projet, i)
                     s0 == m0 + Len(piece.murs)
                     p0 == s0 + Len(piece.planchers)
                 IN /\ \A j \in 1..Len(piece.murs) :
                          d[m0 + j] = LigneDe(piece, piece.murs[j], "Mur+Baies")
                    /\ \A j \in 1..Len(piece.planchers) :
                          d[s0 + j] = LigneDe(piece, piece.planchers[j], "Plancher")
                    /\ \A j \in 1..Len(piece.plafonds) :
                          d[p0 + j] = LigneDe(piece, piece.plafonds[j], "Plafond")

C8_Temoin ==
    /\ resultat.calcule
    /\ Len(resultat.details) = 4
    /\ \E i \in 1..Len(projet.pieces) :
          /\ Len(projet.pieces[i].murs) = 1
          /\ Len(projet.pieces[i].planchers) = 1
          /\ Len(projet.pieces[i].plafonds) = 1

\* The claimed tiers of the insulation-year multiplier, in twentieths.
PalierAnnee(annee) ==
    IF annee > 2015 THEN 3
    ELSE IF annee > 2005 THEN 5
    ELSE IF annee > 1980 THEN 10
    ELSE 20

UParoi(materiau, annee) ==
    Paroi("Mur Nord", "MUR", 50, 25, "Nord", "Exterieur", annee, materiau).u_value

\* C9: for every element, calcul_deperditions = b * netOpaqueArea * U
\* + b * sum(unit area * unit U) with the one element-level b, b = 0.95 exactly
\* when the contact is the unheated space and 1.0 otherwise; the 5 x 2.5
\* outdoor wall of U = 2.5 with one 1.0 x 1.2 single-glazed unit gives 35.21.
C9_FormuleDeperditions ==
    appel.op \in {"Paroi", "ajouter_menuiserie"} =>
    LET w == appel.paroi
        b == IF w.contact = "Local Non Chauffe" THEN 19 ELSE 20
        net == w.surface_brute
                 - SommeSeq([k \in 1..Len(w.menuiseries) |->
                              w.menuiseries[k].largeur * w.menuiseries[k].hauteur])
        vitre == SommeSeq([k \in 1..Len(w.menuiseries) |->
                             w.menuiseries[k].surface * w.menuiseries[k].u_value])
    IN /\ w.b_coef = b
       /\ get_surface_nette(w) = net
       /\ calcul_deperditions(w) = b * (net * w.u_value + vitre)
       /\ ( /\ w.longueur = 50 /\ w.hauteur_largeur = 25
            /\ w.contact = "Exterieur"
            /\ appel.materiau = "Parpaing Creux" /\ appel.annee_iso = 0
            /\ w.menuiseries = <<Menuiserie("Fenetre 1", 10, 12, "Simple vitrage")>> )
          => calcul_deperditions(w) = 14084000        \* 35.21 W/K

C9_Temoin ==
    /\ appel.op = "ajouter_menuiserie"
    /\ appel.paroi.contact = "Local Non Chauffe"
    /\ Len(appel.paroi.menuiseries) = 2
    /\ get_surface_nette(appel.paroi) > 0
    /\ calcul_deperditions(appel.paroi) > 0

C9_TemoinExemple ==
    /\ appel.op = "ajouter_menuiserie"
    /\ appel.paroi.contact = "Exterieur"
    /\ appel.paroi.u_value = 500
    /\ appel.paroi.menuiseries = <<Menuiserie("Fenetre 1", 10, 12, "Simple vitrage")>>
    /\ calcul_deperditions(appel.paroi) = 14084000

\* C10: for a fixed material the u_value never increases with the insulation
\* year, and the multiplier is 0.15 above 2015, else 0.25 above 2005, else 0.5
\* above 1980, else 1.0 (0 and the years 1980, 2005, 2015 in the lower tier).
C10_PaliersAnneeIsolation ==
    appel.op \in {"Paroi", "ajouter_menuiserie"} =>
    LET y == appel.annee_iso
        m == appel.materiau
        U == appel.paroi.u_value
    IN /\ U * 20 = u_base(m) * PalierAnnee(y)
       /\ \A y2 \in AnneesIso :
             /\ y <= y2 => UParoi(m, y2) <= U
             /\ y2 <= y => U <= UParoi(m, y2)

C10_Temoin ==
    /\ appel.op = "Paroi"
    /\ appel.annee_iso = 2005
    /\ appel.materiau = "Brique"
    /\ appel.paroi.u_value = 150       \* 1.5 * 0.5
    /\ UParoi("Brique", 2006) = 75     \* 1.5 * 0.25

Exposes == {"Exterieur", "Local Non Chauffe"}

RECURSIVE PerimetresPT(_)
PerimetresPT(menuiseries) ==
    IF menuiseries = <<>> THEN 0
    ELSE 2 * (Head(menuiseries).largeur + Head(menuiseries).hauteur)
           * psi_menuiserie
         + PerimetresPT(Tail(menuiseries))

\* C2: calcul_ponts_thermiques_auto returns the sum, over the walls whose
\* contact is outdoor or unheated space, of 2*(w+h)*0.1 for each of their
\* glazing units, plus (0.35 + 0.25) times the summed length of those walls;
\* interior walls (and their glazing), floors and ceilings add nothing.
C2_PontsThermiques ==
    calcul_ponts_thermiques_auto(projet) =
        SommeSeq([i \in 1..Len(projet.pieces) |->
            SommeSeq([j \in 1..Len(projet.pieces[i].murs) |->
                LET mur == projet.pieces[i].murs[j]
                IN IF mur.contact \in Exposes
                   THEN PerimetresPT(mur.menuiseries)
                          + (psi_plancher + psi_plafond) * mur.longueur
                   ELSE 0])])

\* C4: ajouter_paroi appends the element to the one list matching its
\* type_paroi and leaves the other two as they were; with any other
\* type_paroi it fails with UnknownCategory and leaves all three unchanged.
C4_RoutageParCategorie ==
    appel.op = "ajouter_paroi" =>
        LET avant == appel.avant
            apres == projet.pieces[appel.i]
            paroi == appel.paroi
        IN CASE paroi.type_paroi = "MUR" ->
                   /\ apres = [avant EXCEPT !.murs = Append(@, paroi)]
                   /\ exception = "Aucune"
             [] paroi.type_paroi = "PLANCHER" ->
                   /\ apres = [avant EXCEPT !.planchers = Append(@, paroi)]
                   /\ exception = "Aucune"
             [] paroi.type_paroi = "PLAFOND" ->
                   /\ apres = [avant EXCEPT !.plafonds = Append(@, paroi)]
                   /\ exception = "Aucune"
             [] OTHER ->
                   /\ apres = avant
                   /\ exception = "UnknownCategory"

=============================================================================
